---- MODULE Spec2Model ----
\* The socket session of Client (src/src/Client.ts): login(), $connect() and the
\* onopen / onmessage / onclose callbacks of every socket the client creates,
\* together with the channel cache the frame handlers resolve through.
EXTENDS Integers, Sequences, FiniteSets, TLC

\* ---------------------------------------------------------------- bounds
\* sockets the client creates in one run
MaxSockets == 2
\* login() calls in one run
MaxLogins == 2
\* frames the server delivers in one run, over all sockets
MaxFrames == 2

\* ---------------------------------------------------------------- values
\* JavaScript's undefined (an unset field, a missing Map entry, an absent
\* property of a packet)
Undefined == "undefined"

ChannelIds == {"C1"}
MsgIds == {"M1"}
Contents == {"hi", "yo"}

\* the accounts the login endpoint knows: {success: true, access_token, id}
Accounts ==
    { [access_token |-> "T1", id |-> "U1"],
      [access_token |-> "T2", id |-> "U2"] }

\* the optional `error` property of an unsuccessful response or acknowledgment
ServerErrors == {Undefined, "bad credentials"}

LoginFallback == "Failed to login, unknown error."
AuthFallback == "Failed to auth with websocket, unknown error."
TransportError == "transport error"

\* the bodies POST /account/login answers with
LoginResponses ==
    { [success |-> TRUE, access_token |-> a.access_token, id |-> a.id,
       error |-> Undefined] : a \in Accounts }
    \cup
    { [success |-> FALSE, access_token |-> Undefined, id |-> Undefined,
       error |-> e] : e \in ServerErrors }

\* the frames the server pushes, after JSON.parse
AuthPackets ==
    { [type |-> "authenticate", success |-> TRUE, error |-> Undefined] }
    \cup
    { [type |-> "authenticate", success |-> FALSE, error |-> e] : e \in ServerErrors }

DataPackets ==
    { [type |-> t, id |-> m, channel |-> c, content |-> x] :
        t \in {"message", "message_update"}, m \in MsgIds, c \in ChannelIds,
        x \in Contents }
    \cup
    { [type |-> "message_delete", id |-> m, channel |-> c, content |-> Undefined] :
        m \in MsgIds, c \in ChannelIds }

UnknownPackets == { [type |-> "typing"] }

Packets == AuthPackets \cup DataPackets \cup UnknownPackets

\* ---------------------------------------------------------------- state
VARIABLES
    ws,                  \* this.ws: 0 is undefined, else a socket number
    token,               \* this.token
    userId,              \* this.userId
    user,                \* this.user (the id of the User object it holds)
    users,               \* this.users: the ids the user cache holds
    channels,            \* this.channels: channel id -> the Channel object held,
                         \* `object` its identity (0: no entry) and `messages`
                         \* its message collection
    autoReconnect,       \* this.autoReconnect
    socketOpen,          \* this.socketOpen: Undefined, "true" or "false"
    socketAuthenticated, \* this.socketAuthenticated
    previouslyConnected, \* this.previouslyConnected
    sockets,             \* every WebSocket created so far, in creation order
    objects,             \* Channel objects constructed so far
    handlers,            \* onmessage invocations suspended at `await findChannel`
    calls,               \* login() calls made so far
    requests,            \* login() calls suspended at `await this.$req` (line 155)
    syncs,               \* login() calls suspended at `await this.$sync()`
                         \* (line 160), per user id being fetched
    input,               \* what the latest step handled: a call, a socket event,
                         \* a frame, an HTTP answer
    out,                 \* what the latest step did, in order: events emitted,
                         \* sockets created, frames sent, rejections nobody handled
    readyCount,          \* how often `ready` has been emitted so far
    frames               \* frames delivered so far, over all sockets

vars ==
    << ws, token, userId, user, users, channels, autoReconnect, socketOpen,
       socketAuthenticated, previouslyConnected, sockets, objects, handlers,
       calls, requests, syncs, input, out, readyCount, frames >>

\* `!x` of a boolean field that starts out undefined: undefined is falsy
Not(x) == x # "true"

\* a Channel object's message collection with nothing in it
NoMessages == [m \in MsgIds |-> Undefined]

\* ---------------------------------------------------------------- log entries
\* the entries of `es` that emit the event `ev`
Emits(es, ev) == { i \in 1..Len(es) : es[i].kind = "emit" /\ es[i].ev = ev }

\* the step handled `on` (of socket `sock`, 0 if of none) carrying `data`
Handled(on, sock, data) == input' = [on |-> on, sock |-> sock, data |-> data]

\* the step did `es`
Did(es) ==
    /\ out' = es
    /\ readyCount' = readyCount + Cardinality(Emits(es, "ready"))

\* `src` is what ran the code: << "frame", socket, arrival number >>,
\* << "socket", socket, 0 >> for onopen / onclose, << "login", 0, 0 >>
Emitted(ev, arg, src) == [kind |-> "emit", ev |-> ev, arg |-> arg, src |-> src]
Created(s, src) == [kind |-> "socket", ev |-> "new", arg |-> << s >>, src |-> src]
Sent(s, tok) ==
    [kind |-> "send", ev |-> "authenticate", arg |-> << s, tok >>,
     src |-> << "socket", s, 0 >>]
Unhandled(src) == [kind |-> "unhandled", ev |-> "rejection", arg |-> << >>, src |-> src]

\* ---------------------------------------------------------------- Init
Init ==
    /\ ws = 0
    /\ token = Undefined
    /\ userId = Undefined
    /\ user = Undefined
    /\ users = {}
    /\ channels = [c \in ChannelIds |-> [object |-> 0, messages |-> NoMessages]]
    /\ autoReconnect \in BOOLEAN
    /\ socketOpen = Undefined
    /\ socketAuthenticated = Undefined
    /\ previouslyConnected = Undefined
    /\ sockets = << >>
    /\ objects = 0
    /\ handlers = {}
    /\ calls = 0
    /\ requests = 0
    /\ syncs = [id \in { a.id : a \in Accounts } |-> 0]
    /\ input = [on |-> "construct", sock |-> 0, data |-> << >>]
    /\ out = << >>
    /\ readyCount = 0
    /\ frames = 0

\* ---------------------------------------------------------------- $connect
\* `this.ws.close()` of line 56: an open socket starts its closing handshake
CloseSocket(socks, s) == [socks EXCEPT ![s].readyState = "CLOSING"]

\* lines 54-56: the socket this.ws names is closed when it is open
ClosePrevious(socks) ==
    IF ws # 0 /\ socks[ws].readyState = "OPEN"
    THEN CloseSocket(socks, ws)
    ELSE socks

\* line 58: `let ws = new WebSocket(...)`, a local; the callbacks of lines
\* 60-125 are attached to it
NewSocket == [readyState |-> "CONNECTING"]

\* $connect() called by `by` with the sockets as `socks`, after the step
\* did `es`
Connect(socks, es, by) ==
    /\ Len(socks) < MaxSockets
    /\ sockets' = Append(ClosePrevious(socks), NewSocket)
    /\ Did(Append(es, Created(Len(socks) + 1, by)))
    /\ ws' = ws

\* ---------------------------------------------------------------- onopen
\* `token` of line 64 dropped: the frame goes out without the token
AuthFrameNoToken(s) == Sent(s, Undefined)

\* lines 62-65: ws.send(JSON.stringify({type: "authenticate", token: this.token}))
AuthFrame(s) == Sent(s, token)

\* lines 60-66: the socket `s` has connected
OnOpen(s) ==
    /\ sockets[s].readyState = "CONNECTING"
    /\ sockets' = [sockets EXCEPT ![s].readyState = "OPEN"]
    /\ socketOpen' = "true"
    /\ Handled("open", s, << >>)
    /\ Did(<< AuthFrame(s) >>)
    /\ UNCHANGED << ws, token, userId, user, users, channels, autoReconnect,
                    socketAuthenticated, previouslyConnected, objects, handlers,
                    calls, requests, syncs, frames >>

\* ---------------------------------------------------------------- onclose
\* line 123 dropped: a close never reconnects
ReconnectNever == FALSE

\* the flag of line 123 ignored: a close always reconnects
ReconnectAlways == TRUE

\* line 123: `this.autoReconnect &&`
ReconnectOnClose == autoReconnect

\* lines 119-125: the socket `s` has closed (a drop, a failed connection attempt,
\* or the end of the closing handshake)
OnClose(s) ==
    LET closed == [sockets EXCEPT ![s].readyState = "CLOSED"]
        es == << Emitted("dropped", << >>, << "socket", s, 0 >>) >>
    IN  /\ sockets[s].readyState \in {"CONNECTING", "OPEN", "CLOSING"}
        /\ Handled("close", s, << >>)
        /\ socketOpen' = "false"
        /\ socketAuthenticated' = "false"
        /\ IF ReconnectOnClose
           THEN Connect(closed, es, << "socket", s, 0 >>)
           ELSE /\ sockets' = closed
                /\ Did(es)
                /\ ws' = ws
        /\ UNCHANGED << token, userId, user, users, channels, autoReconnect,
                        previouslyConnected, objects, handlers, calls, requests, syncs, frames >>

\* ---------------------------------------------------------------- onmessage
\* the guard of line 79 dropped: `ready` with every acknowledgment
ReadyAlways == TRUE

\* line 79: `if (!this.previouslyConnected)`
ReadyDue == Not(previouslyConnected)

\* lines 75-76: this.socketAuthenticated from line 76 on, which is what a
\* listener of the events of lines 78 and 80 reads
Authenticated(p) == IF p.success THEN "true" ELSE socketAuthenticated

\* lines 78 and 80 swapped: `ready` before `connected`
AuthEventsReadyFirst(p, src) ==
    IF p.success
    THEN (IF ReadyDue
          THEN << Emitted("ready", << Authenticated(p) >>, src) >> ELSE << >>)
         \o << Emitted("connected", << Authenticated(p) >>, src) >>
    ELSE << Emitted("error",
                    << IF p.error = Undefined THEN AuthFallback ELSE p.error >>,
                    src) >>

\* lines 75-85: the events an authenticate acknowledgment emits; `connected`
\* and `ready` are entered with the socketAuthenticated their listeners read
AuthEvents(p, src) ==
    IF p.success
    THEN << Emitted("connected", << Authenticated(p) >>, src) >>
         \o (IF ReadyDue
             THEN << Emitted("ready", << Authenticated(p) >>, src) >> ELSE << >>)
    ELSE << Emitted("error",
                    << IF p.error = Undefined THEN AuthFallback ELSE p.error >>,
                    src) >>

\* line 76 moved out of the `if`: authenticated by any acknowledgment
OnAuthenticateAnyAck(p, src) ==
    /\ socketAuthenticated' = "true"
    /\ previouslyConnected' =
          (IF p.success /\ ReadyDue THEN "true" ELSE previouslyConnected)
    /\ Did(AuthEvents(p, src))
    /\ UNCHANGED << channels, objects, handlers >>

\* lines 73-87: an authenticate acknowledgment, handled without suspending
OnAuthenticate(p, src) ==
    /\ socketAuthenticated' = Authenticated(p)
    /\ previouslyConnected' =
          (IF p.success /\ ReadyDue THEN "true" ELSE previouslyConnected)
    /\ Did(AuthEvents(p, src))
    /\ UNCHANGED << channels, objects, handlers >>

\* Channel.from(id, client) finding the id in the cache
Cached(c) == channels[c].object # 0

\* Channel.from(id, client) after its fetch: a new Channel object, the `n`-th,
\* is constructed and inserted under its id
Fetched(chans, c, n) ==
    [chans EXCEPT ![c] = [object |-> n, messages |-> NoMessages]]

\* lines 101, 110 moved below lines 103, 112: the snapshot is taken of what
\* the frame carries
SnapshotOfPayload(chans, p) == p.content

\* lines 101, 110: channel.messages.get(m.id)?.$snapshot()
Snapshot(chans, p) == chans[p.channel].messages[p.id]

\* Message.from(id, channel, m): the message of that id in the channel's
\* collection is constructed or refreshed from the raw payload
MessageFrom(chans, p) == [chans EXCEPT ![p.channel].messages[p.id] = p.content]

\* line 112: channel.messages.delete(m.id)
MessageDelete(chans, p) == [chans EXCEPT ![p.channel].messages[p.id] = Undefined]

\* lines 94, 103, 112: what the handler does to the channel it resolved
Apply(chans, p) ==
    IF p.type = "message_delete"
    THEN MessageDelete(chans, p)
    ELSE MessageFrom(chans, p)

\* lines 94, 103, 113: the event the handler emits; `message` carries the
\* Message, `message_update` the Message and the snapshot, `message_delete`
\* the id and the snapshot
DataEvent(chans, p, src) ==
    CASE p.type = "message" ->
           Emitted("message", << p.id, Snapshot(Apply(chans, p), p) >>, src)
      [] p.type = "message_update" ->
           Emitted("message_update",
                   << p.id, Snapshot(Apply(chans, p), p), Snapshot(chans, p) >>,
                   src)
      [] p.type = "message_delete" ->
           Emitted("message_delete", << p.id, Snapshot(chans, p) >>, src)

\* lines 93-94, 101-103, 110-113: the handler of packet `p` running on from
\* `await this.findChannel(...)`, which resolved to the Channel object the
\* cache `chans` holds
Resume(chans, p, src) ==
    /\ channels' = Apply(chans, p)
    /\ Did(<< DataEvent(chans, p, src) >>)

\* lines 91-92, 99-100, 108-109: a data frame; on a cache hit the handler
\* runs to its end, on a miss it is suspended on the fetch
OnData(p, src) ==
    /\ IF Cached(p.channel)
       THEN /\ Resume(channels, p, src)
            /\ UNCHANGED handlers
       ELSE /\ handlers' = handlers \cup { [src |-> src, packet |-> p] }
            /\ Did(<< >>)
            /\ UNCHANGED channels
    /\ UNCHANGED << objects, socketAuthenticated, previouslyConnected >>

\* a `default` case added to the switch: an unknown type is reported
OnUnknownReported(p, src) ==
    /\ Did(<< Emitted("error", << p.type >>, src) >>)
    /\ UNCHANGED << channels, objects, handlers,
                    socketAuthenticated, previouslyConnected >>

\* lines 71-116: the switch has no case for the type and no default
OnUnknown(p, src) ==
    /\ Did(<< >>)
    /\ UNCHANGED << channels, objects, handlers,
                    socketAuthenticated, previouslyConnected >>

\* lines 68-117: a frame arrives on the socket `s`; the switch of line 71
OnMessage(s, p) ==
    LET src == << "frame", s, frames + 1 >>
    IN  /\ sockets[s].readyState = "OPEN"
        /\ frames < MaxFrames
        /\ frames' = frames + 1
        /\ Handled("frame", s, p)
        /\ CASE p.type = "authenticate" -> OnAuthenticate(p, src)
             [] p.type \in {"message", "message_update", "message_delete"} ->
                  OnData(p, src)
             [] OTHER -> OnUnknown(p, src)
        /\ UNCHANGED << ws, token, userId, user, users, autoReconnect, socketOpen,
                        sockets, calls, requests, syncs >>

\* the fetch of a suspended handler answers: Channel.from inserts the new
\* object and the handler runs to its end
FetchDone(h) ==
    /\ h \in handlers
    /\ handlers' = handlers \ {h}
    /\ objects' = objects + 1
    /\ Handled("fetched", h.src[2], h.packet)
    /\ Resume(Fetched(channels, h.packet.channel, objects + 1), h.packet, h.src)
    /\ UNCHANGED << ws, token, userId, user, users, autoReconnect, socketOpen,
                    socketAuthenticated, previouslyConnected, sockets, calls,
                    requests, syncs, frames >>

\* the fetch fails: findChannel rejects inside the async callback of line 68,
\* whose promise nobody holds
FetchFail(h) ==
    /\ h \in handlers
    /\ handlers' = handlers \ {h}
    /\ Handled("fetch failed", h.src[2], h.packet)
    /\ Did(<< Unhandled(h.src) >>)
    /\ UNCHANGED << ws, token, userId, user, users, channels, autoReconnect,
                    socketOpen, socketAuthenticated, previouslyConnected, sockets,
                    objects, calls, requests, syncs, frames >>

\* ---------------------------------------------------------------- login
InLogin == << "login", 0, 0 >>

\* line 153: login(email, password) is called; line 155 sends the request
Login ==
    /\ calls < MaxLogins
    /\ calls' = calls + 1
    /\ requests' = requests + 1
    /\ Handled("login", 0, << >>)
    /\ Did(<< >>)
    /\ UNCHANGED << ws, token, userId, user, users, channels, autoReconnect,
                    socketOpen, socketAuthenticated, previouslyConnected, sockets,
                    objects, handlers, syncs, frames >>

\* line 157: `if (data.success)`
LoginAccepted(data) == data.success

\* line 158 dropped: the access token of the response is not stored
LoginStoredNoToken(data) ==
    /\ token' = token
    /\ userId' = data.id
    /\ syncs' = [syncs EXCEPT ![data.id] = @ + 1]
    /\ Did(<< >>)
    /\ UNCHANGED << ws, sockets >>

\* lines 158-160: the token and the user id are stored and the self-profile
\* fetch is started
LoginStored(data) ==
    /\ token' = data.access_token
    /\ userId' = data.id
    /\ syncs' = [syncs EXCEPT ![data.id] = @ + 1]
    /\ Did(<< >>)
    /\ UNCHANGED << ws, sockets >>

\* line 161 moved out of the `if`: $connect() also after a rejected login
LoginRejectedThenConnects(data) ==
    /\ Connect(sockets,
               << Emitted("error",
                          << IF data.error = Undefined
                             THEN LoginFallback ELSE data.error >>,
                          << "login", 0, 0 >>) >>,
               << "login", 0, 0 >>)
    /\ UNCHANGED << token, userId, syncs >>

\* lines 162-164: `this.emit('error', data.error ?? 'Failed to login, ...')`
LoginRejected(data) ==
    /\ Did(<< Emitted("error",
                      << IF data.error = Undefined
                         THEN LoginFallback ELSE data.error >>,
                      << "login", 0, 0 >>) >>)
    /\ UNCHANGED << token, userId, syncs, ws, sockets >>

\* lines 155-164: the response `data` arrives
LoginResponse(data) ==
    /\ requests > 0
    /\ requests' = requests - 1
    /\ Handled("response", 0, data)
    /\ IF LoginAccepted(data) THEN LoginStored(data) ELSE LoginRejected(data)
    /\ UNCHANGED << user, users, channels, autoReconnect, socketOpen,
                    socketAuthenticated, previouslyConnected, objects,
                    handlers, calls, frames >>

\* lines 155, 165-167: the request fails in transport
LoginThrows ==
    /\ requests > 0
    /\ requests' = requests - 1
    /\ Handled("request failed", 0, << >>)
    /\ Did(<< Emitted("error", << TransportError >>, InLogin) >>)
    /\ UNCHANGED << ws, token, userId, user, users, channels, autoReconnect,
                    socketOpen, socketAuthenticated, previouslyConnected, sockets,
                    objects, handlers, calls, syncs, frames >>

\* lines 149-151, 160-161: the self-profile fetch of user `id` answers, then
\* $connect()
SyncDone(id) ==
    /\ syncs[id] > 0
    /\ syncs' = [syncs EXCEPT ![id] = @ - 1]
    /\ user' = id
    /\ users' = users \cup {id}
    /\ Handled("synced", 0, id)
    /\ Connect(sockets, << >>, InLogin)
    /\ UNCHANGED << token, userId, channels, autoReconnect, socketOpen,
                    socketAuthenticated, previouslyConnected, objects, handlers,
                    calls, requests, frames >>

\* a reset added to the catch of lines 165-167: the stored login is dropped
SyncFailResets(id) ==
    /\ syncs[id] > 0
    /\ syncs' = [syncs EXCEPT ![id] = @ - 1]
    /\ token' = Undefined
    /\ userId' = Undefined
    /\ Handled("sync failed", 0, id)
    /\ Did(<< Emitted("error", << TransportError >>, InLogin) >>)
    /\ UNCHANGED << ws, user, users, channels, autoReconnect,
                    socketOpen, socketAuthenticated, previouslyConnected, sockets,
                    objects, handlers, calls, requests, frames >>

\* lines 149-151, 160, 165-167: the self-profile fetch fails
SyncFail(id) ==
    /\ syncs[id] > 0
    /\ syncs' = [syncs EXCEPT ![id] = @ - 1]
    /\ Handled("sync failed", 0, id)
    /\ Did(<< Emitted("error", << TransportError >>, InLogin) >>)
    /\ UNCHANGED << ws, token, userId, user, users, channels, autoReconnect,
                    socketOpen, socketAuthenticated, previouslyConnected, sockets,
                    objects, handlers, calls, requests, frames >>

\* ---------------------------------------------------------------- Next
UserIds == { a.id : a \in Accounts }

Next ==
    \/ Login
    \/ \E data \in LoginResponses : LoginResponse(data)
    \/ LoginThrows
    \/ \E id \in UserIds : SyncDone(id)
    \/ \E id \in UserIds : SyncFail(id)
    \/ \E s \in 1..Len(sockets) : OnOpen(s)
    \/ \E s \in 1..Len(sockets) : \E p \in Packets : OnMessage(s, p)
    \/ \E s \in 1..Len(sockets) : OnClose(s)
    \/ \E h \in handlers : FetchDone(h)
    \/ \E h \in handlers : FetchFail(h)

Spec == Init /\ [][Next]_vars

\* The session alone: a server that pushes acknowledgments and frames of
\* unknown type, and no message frames; any number of overlapping logins.
NextSession ==
    \/ Login
    \/ \E data \in LoginResponses : LoginResponse(data)
    \/ LoginThrows
    \/ \E id \in UserIds : SyncDone(id)
    \/ \E id \in UserIds : SyncFail(id)
    \/ \E s \in 1..Len(sockets) : OnOpen(s)
    \/ \E s \in 1..Len(sockets) : \E p \in AuthPackets \cup UnknownPackets :
          OnMessage(s, p)
    \/ \E s \in 1..Len(sockets) : OnClose(s)

SpecSession == Init /\ [][NextSession]_vars

\* The frame handlers of one session: an application that calls login() again
\* only after the earlier call has failed, so that the sockets are the one
\* the login created and its reconnects; the server pushes every frame.
NoLoginPending == requests = 0 /\ \A id \in UserIds : syncs[id] = 0

NextFrames ==
    \/ NoLoginPending /\ sockets = << >> /\ Login
    \/ \E data \in LoginResponses : LoginResponse(data)
    \/ LoginThrows
    \/ \E id \in UserIds : SyncDone(id)
    \/ \E id \in UserIds : SyncFail(id)
    \/ \E s \in 1..Len(sockets) : OnOpen(s)
    \/ \E s \in 1..Len(sockets) : \E p \in Packets : OnMessage(s, p)
    \/ \E s \in 1..Len(sockets) : OnClose(s)
    \/ \E h \in handlers : FetchDone(h)
    \/ \E h \in handlers : FetchFail(h)

SpecFrames == Init /\ [][NextFrames]_vars

\* ---------------------------------------------------------------- claims
OpenSockets == { s \in 1..Len(sockets) : sockets[s].readyState = "OPEN" }

ClosedSockets == { s \in 1..Len(sockets) : sockets[s].readyState = "CLOSED" }

\* the latest step handled a successful authenticate acknowledgment
AckOk(in) == in.on = "frame" /\ in.data.type = "authenticate" /\ in.data.success

\* C1: at most one socket of the client is open at any time, after any
\* sequence of logins, opens, closes and reconnects.
C1_AtMostOneOpenSocket == Cardinality(OpenSockets) <= 1

\* C2: `ready` is emitted exactly once per client lifetime, by the first
\* successful authenticate acknowledgment and by no other step, whatever
\* sockets have closed or reconnected since; every successful acknowledgment
\* emits `connected`.
C2_ReadyExactlyOnce ==
    /\ [](readyCount <= 1)
    /\ [][ IF AckOk(input')
           THEN /\ Cardinality(Emits(out', "connected")) = 1
                /\ Cardinality(Emits(out', "ready")) =
                      (IF readyCount = 0 THEN 1 ELSE 0)
           ELSE Emits(out', "ready") = {} /\ Emits(out', "connected") = {} ]_vars

\* a later successful acknowledgment, after a socket has closed, emitted
\* `connected` alone
C2_LaterAckWitness ==
    /\ AckOk(input)
    /\ readyCount = 1
    /\ ClosedSockets # {}
    /\ Len(out) = 1
    /\ out[1].ev = "connected"

\* C3: with autoReconnect set, a socket's close event sets the state to
\* Disconnected, emits `dropped` and then creates exactly one new socket.
C3_CloseReconnectsOnce ==
    [][ (input'.on = "close" /\ autoReconnect) =>
          /\ socketOpen' = "false"
          /\ socketAuthenticated' = "false"
          /\ sockets'[input'.sock].readyState = "CLOSED"
          /\ Len(sockets') = Len(sockets) + 1
          /\ sockets'[Len(sockets')].readyState = "CONNECTING"
          /\ Len(out') = 2
          /\ out'[1].kind = "emit" /\ out'[1].ev = "dropped"
          /\ out'[2].kind = "socket" /\ out'[2].arg = << Len(sockets') >> ]_vars

\* a close event has been handled with autoReconnect set
C3_ReconnectWitness ==
    /\ autoReconnect
    /\ input.on = "close"
    /\ sockets[input.sock].readyState = "CLOSED"
    /\ Len(out) = 2
    /\ out[2].kind = "socket"

\* C4: with autoReconnect unset, a socket's close event emits `dropped`, sets
\* the state to Disconnected and creates no socket; a socket is created only
\* by a login whose self-profile fetch has answered.
C4_NoReconnectWithoutAuto ==
    [][ ~autoReconnect =>
          /\ (input'.on = "close" =>
                /\ socketOpen' = "false"
                /\ socketAuthenticated' = "false"
                /\ Len(sockets') = Len(sockets)
                /\ Len(out') = 1
                /\ out'[1].kind = "emit" /\ out'[1].ev = "dropped")
          /\ (Len(sockets') # Len(sockets) => input'.on = "synced") ]_vars

\* every socket has closed with autoReconnect unset, the latest by this step
C4_ClosedWitness ==
    /\ ~autoReconnect
    /\ input.on = "close"
    /\ sockets # << >>
    /\ ClosedSockets = 1..Len(sockets)
    /\ socketOpen = "false"

\* C5: an open, message or close event of a socket that is not the newest
\* one leaves socketOpen and socketAuthenticated as they were and creates no
\* socket.
C5_OldSocketEventsIgnored ==
    [][ (input'.on \in {"open", "frame", "close"} /\ input'.sock < Len(sockets)) =>
          /\ socketOpen' = socketOpen
          /\ socketAuthenticated' = socketAuthenticated
          /\ Len(sockets') = Len(sockets) ]_vars

DataEvents == {"message", "message_update", "message_delete"}

\* the entries of `es` that emit the event of a message frame
DataEmits(es) ==
    { i \in 1..Len(es) : es[i].kind = "emit" /\ es[i].ev \in DataEvents }

\* C6: the frames of a socket are processed one after the other: when the
\* event of a frame is emitted, no frame that arrived on that socket before
\* it is still being processed.
C6_EventsInArrivalOrder ==
    [][ \A i \in DataEmits(out') : \A h \in handlers' :
          ~(h.src[2] = out'[i].src[2] /\ h.src[3] < out'[i].src[3]) ]_vars

\* C7: when a `message` frame is directly followed, on the same socket, by a
\* `message_update` frame for the same id and channel, the snapshot of the
\* `message_update` event is the message as the `message` frame left it,
\* also if that frame's handler is suspended on the channel fetch.
C7_SnapshotIsPriorMessage ==
    [][ \A i \in Emits(out', "message_update") : \A h \in handlers' :
          ( /\ h.packet.type = "message"
            /\ h.packet.id = input'.data.id
            /\ h.packet.channel = input'.data.channel
            /\ h.src[2] = out'[i].src[2]
            /\ h.src[3] + 1 = out'[i].src[3] )
          => out'[i].arg[3] = h.packet.content ]_vars

\* C8: the step that processes a `message_delete` frame for (C, M) emits
\* `message_delete` with M and the message the cache held for it, or
\* undefined (undefined only if the channel had to be fetched or held no M),
\* and leaves M absent from the channel the cache holds for C; and M is still
\* absent after the next step, unless that step processed a frame that
\* arrived after the delete.
C8_DeleteSnapshotAndAbsence ==
    [][ /\ \A i \in Emits(out', "message_delete") :
              /\ out'[i].arg[1] = input'.data.id
              /\ out'[i].arg[2] \in
                    { channels[input'.data.channel].messages[input'.data.id] }
                    \cup (IF input'.on = "fetched" THEN {Undefined} ELSE {})
              /\ channels'[input'.data.channel].messages[input'.data.id] = Undefined
        /\ \A i \in Emits(out, "message_delete") :
              channels'[input.data.channel].messages[input.data.id] # Undefined
              => \E j \in DataEmits(out') : out'[j].src[3] > out[i].src[3] ]_vars

\* C9: while socketOpen is false no event of a message frame is emitted (and
\* so no message collection is changed), also not by a handler that was
\* suspended when the socket closed.
C9_NoPushWhileDisconnected == socketOpen = "false" => DataEmits(out) = {}

\* C10: a login that fails, by a transport error or by a response with
\* success=false, emits `error` (the server's reason, else the generic one),
\* creates no socket and is over: nothing of the call is left to connect.
C10_FailedLoginNoSocket ==
    [][ /\ (input'.on = "response" /\ ~input'.data.success) =>
              /\ out' = << Emitted("error",
                                   << IF input'.data.error = Undefined
                                      THEN LoginFallback ELSE input'.data.error >>,
                                   InLogin) >>
              /\ sockets' = sockets
              /\ syncs' = syncs
              /\ requests' = requests - 1
        /\ (input'.on = "request failed") =>
              /\ out' = << Emitted("error", << TransportError >>, InLogin) >>
              /\ sockets' = sockets
              /\ syncs' = syncs
              /\ requests' = requests - 1 ]_vars

\* a response with success=false and no reason has been handled
C10_RejectedWitness ==
    /\ input.on = "response"
    /\ ~input.data.success
    /\ input.data.error = Undefined
    /\ Len(out) = 1
    /\ out[1].ev = "error"

\* the latest step handled an authenticate acknowledgment with success=false
AckFailed(in) == in.on = "frame" /\ in.data.type = "authenticate" /\ ~in.data.success

\* C11: an authenticate acknowledgment with success=false emits exactly one
\* `error` (the server's reason, else the generic one) and nothing else,
\* leaves socketAuthenticated, socketOpen and every socket as they were and
\* creates no socket; sockets are created only by a close event or by a
\* login whose self-profile fetch has answered.
C11_FailedAckOnlyErrors ==
    [][ /\ AckFailed(input') =>
              /\ Len(out') = 1
              /\ out'[1].kind = "emit" /\ out'[1].ev = "error"
              /\ out'[1].arg =
                    << IF input'.data.error = Undefined
                       THEN AuthFallback ELSE input'.data.error >>
              /\ socketAuthenticated' = socketAuthenticated
              /\ socketOpen' = socketOpen
              /\ previouslyConnected' = previouslyConnected
              /\ sockets' = sockets
              /\ sockets'[input'.sock].readyState = "OPEN"
        /\ Len(sockets') # Len(sockets) => input'.on \in {"close", "synced"} ]_vars

\* a failed acknowledgment without a reason has been handled on a socket
\* that was not authenticated
C11_FailedAckWitness ==
    /\ AckFailed(input)
    /\ input.data.error = Undefined
    /\ socketAuthenticated # "true"
    /\ Len(out) = 1
    /\ out[1].ev = "error"

\* the latest step ran a data handler on from its `await this.findChannel(...)`
Resolved(in) ==
    /\ in.on \in {"frame", "fetched"}
    /\ in.data.type \in {"message", "message_update", "message_delete"}

\* C12: every handler that resolves a channel id obtains the same Channel
\* object: once the cache holds an object for the id, a handler that comes
\* to resolve the id, also one whose lookup was in flight meanwhile, works
\* on that object, and the cache goes on holding it.
C12_OneObjectPerChannel ==
    [][ \A c \in ChannelIds :
          (Cached(c) /\ Resolved(input') /\ input'.data.channel = c /\ out' # << >>)
             => channels'[c].object = channels[c].object ]_vars

\* the channel object the handler of the latest step resolved holds no
\* message of the frame's id: a cache hit on a collection without it, or a
\* channel just fetched
Unobserved(in) ==
    \/ in.on = "fetched"
    \/ in.on = "frame" /\ channels[in.data.channel].messages[in.data.id] = Undefined

\* C13: a `message_update` or `message_delete` for a message id the resolved
\* channel's collection does not hold runs to its end without a rejection:
\* it emits exactly its one event, whose snapshot is undefined, and after a
\* delete the collection is without that id.
C13_UnknownMessageSnapshotUndefined ==
    [][ ( /\ Resolved(input')
          /\ input'.data.type \in {"message_update", "message_delete"}
          /\ out' # << >>
          /\ Unobserved(input') )
        => /\ Len(out') = 1
           /\ out'[1].kind = "emit"
           /\ out'[1].ev = input'.data.type
           /\ out'[1].arg[1] = input'.data.id
           /\ out'[1].arg[Len(out'[1].arg)] = Undefined
           /\ input'.data.type = "message_delete"
                 => channels'[input'.data.channel].messages[input'.data.id]
                      = Undefined ]_vars

\* an update for a message the cached channel does not hold has been handled
C13_UnknownUpdateWitness ==
    /\ input.on = "frame"
    /\ input.data.type = "message_update"
    /\ Len(out) = 1
    /\ out[1].ev = "message_update"
    /\ out[1].arg[3] = Undefined

\* C14: a transport failure of a background HTTP call (the channel fetch of
\* a frame handler, the login request, the self-profile fetch) is caught
\* where the call is made and emitted as `error`: no step ends in a
\* rejection nobody handles.
C14_TransportFailuresEmitError ==
    /\ \A i \in 1..Len(out) : out[i].kind # "unhandled"
    /\ input.on \in {"fetch failed", "request failed", "sync failed"}
          => Emits(out, "error") # {}

\* C15: whenever `ready` is emitted, the `connected` of the same
\* acknowledgment was emitted immediately before it, and the listeners of
\* either event find socketAuthenticated = true, as it is after the step.
C15_ConnectedThenReady ==
    [][ /\ \A i \in Emits(out', "ready") :
              /\ i > 1
              /\ out'[i - 1].kind = "emit"
              /\ out'[i - 1].ev = "connected"
              /\ out'[i - 1].src = out'[i].src
        /\ \A i \in Emits(out', "connected") \cup Emits(out', "ready") :
              /\ out'[i].arg = << "true" >>
              /\ socketAuthenticated' = "true"
              /\ AckOk(input') ]_vars

\* the first successful acknowledgment has emitted `connected`, then `ready`
C15_ReadyWitness ==
    /\ AckOk(input)
    /\ Len(out) = 2
    /\ out[1].ev = "connected"
    /\ out[2].ev = "ready"
    /\ socketAuthenticated = "true"

\* C16: on every socket-open event the client sets socketOpen and sends
\* exactly one frame, {type: "authenticate", token}, on the socket that
\* opened, with the token stored at that moment, which is the access token
\* of the latest login response with success=true; no other step sends a
\* frame.
C16_OpenSendsOneAuthenticate ==
    [][ /\ input'.on = "open" =>
              /\ socketOpen' = "true"
              /\ sockets'[input'.sock].readyState = "OPEN"
              /\ out' = << [kind |-> "send", ev |-> "authenticate",
                            arg |-> << input'.sock, token >>,
                            src |-> << "socket", input'.sock, 0 >>] >>
              /\ token # Undefined
        /\ (\E i \in 1..Len(out') : out'[i].kind = "send") => input'.on = "open"
        /\ (input'.on = "response" /\ input'.data.success)
              => token' = input'.data.access_token
        /\ token' # token => input'.on = "response" /\ input'.data.success ]_vars

\* a socket has opened after a later login replaced the token: the frame
\* carries the later token
C16_OpenWitness ==
    /\ input.on = "open"
    /\ calls = 2
    /\ token = "T2"
    /\ user = "U1"
    /\ Len(out) = 1
    /\ out[1].kind = "send"
    /\ out[1].arg = << input.sock, "T2" >>

\* C17: the connection state moves along the declared transitions only:
\* in every reachable state socketAuthenticated = true implies
\* socketOpen = true, however the open, acknowledgment and close events of
\* the sockets interleave.
C17_AuthenticatedImpliesOpen ==
    socketAuthenticated = "true" => socketOpen = "true"

\* the access tokens the login endpoint hands out
Tokens == { a.access_token : a \in Accounts }

\* C18: while socketAuthenticated = true the client holds a token that a
\* login response with success=true stored; a socket exists only once
\* token, userId and user are set; a login creates its socket in the step
\* where its self-profile fetch answers, every other socket is created by a
\* close event; and a token once stored is never cleared.
C18_AuthenticatedHasToken ==
    /\ [](socketAuthenticated = "true" => token \in Tokens)
    /\ [](sockets # << >> =>
             token \in Tokens /\ userId \in UserIds /\ user \in UserIds)
    /\ [][ /\ token # Undefined => token' # Undefined
           /\ Len(sockets') > Len(sockets) =>
                 \/ input'.on = "close"
                 \/ input'.on = "synced" /\ user' = input'.data
                      /\ token \in Tokens /\ userId \in UserIds ]_vars

\* a socket of a login has been authenticated
C18_AuthenticatedWitness ==
    /\ AckOk(input)
    /\ socketAuthenticated = "true"
    /\ token \in Tokens
    /\ user \in UserIds

\* the frame types the switch of line 71 has a case for
KnownTypes == {"authenticate", "message", "message_update", "message_delete"}

\* C19: a frame of any other type than authenticate, message,
\* message_update and message_delete is ignored: the step emits nothing,
\* suspends no handler on a channel fetch, constructs no channel, and leaves
\* socketOpen, socketAuthenticated, previouslyConnected, both caches and
\* the sockets as they were.
C19_UnknownFrameIgnored ==
    [][ (input'.on = "frame" /\ input'.data.type \notin KnownTypes)
        => /\ out' = << >>
           /\ handlers' = handlers
           /\ objects' = objects
           /\ channels' = channels
           /\ users' = users
           /\ socketOpen' = socketOpen
           /\ socketAuthenticated' = socketAuthenticated
           /\ previouslyConnected' = previouslyConnected
           /\ sockets' = sockets ]_vars

\* a frame of unknown type has arrived on a session whose
\* channel cache holds a channel
C19_UnknownFrameWitness ==
    /\ input.on = "frame"
    /\ input.data.type = "typing"
    /\ Cached("C1")
    /\ out = << >>

\* every login() call made so far has ended by emitting `error`
AllLoginsFailed == calls > 0 /\ NoLoginPending /\ sockets = << >>

\* the latest step ended a login() call with `error`
LoginFailed(in) ==
    \/ in.on \in {"request failed", "sync failed"}
    \/ in.on = "response" /\ ~in.data.success

\* C20: a login() call that ends by emitting `error` leaves token, userId
\* and user with the values they had before the call, at every failure
\* point: when every call so far has ended with `error`, the three are
\* undefined as after construction.
C20_FailedLoginLeavesSession ==
    AllLoginsFailed =>
        token = Undefined /\ userId = Undefined /\ user = Undefined

\* C20, amended: a login() call that ends with `error` at the HTTP exchange
\* or with a success=false response has changed nothing of token, userId
\* and user; a response with success=true stores its access token and id
\* at once, and when the self-profile fetch then fails the call emits
\* `error`, leaves user and the sockets alone and keeps the stored token
\* and userId.
C20_FailedLoginKeepsStoredLogin ==
    /\ [](AllLoginsFailed =>
             /\ user = Undefined
             /\ \/ token = Undefined /\ userId = Undefined
                \/ [access_token |-> token, id |-> userId] \in Accounts)
    /\ [][ /\ LoginFailed(input') =>
                 /\ Len(out') = 1
                 /\ out'[1].kind = "emit" /\ out'[1].ev = "error"
                 /\ token' = token /\ userId' = userId /\ user' = user
                 /\ sockets' = sockets
           /\ (input'.on = "response" /\ input'.data.success) =>
                 /\ token' = input'.data.access_token
                 /\ userId' = input'.data.id
                 /\ user' = user
                 /\ out' = << >> ]_vars

\* the only login() call so far has ended with `error` in its self-profile
\* fetch, and its token and user id are stored
C20_SyncFailedWitness ==
    /\ input.on = "sync failed"
    /\ calls = 1
    /\ AllLoginsFailed
    /\ token \in Tokens
    /\ userId = input.data
    /\ user = Undefined

====
